---- MODULE Spec2Model ----
(***************************************************************************)
(* Model of the multi-armed bandit simulator: Bernoulli arms               *)
(* (src/src/bandit.py), the arm collection, and the semi-uniform           *)
(* strategies with their run operations (src/src/simulation.py); and the   *)
(* construction of collections, Gaussian arms, the secondary-parameter     *)
(* views and the Metrics constructors (src/src/metrics.py).                *)
(*                                                                         *)
(* Real numbers are exact rationals: a true parameter p is the integer     *)
(* p * ParamDen, epsilon and the uniform draw u are the integers           *)
(* epsilon * EpsDen and u * EpsDen, and an estimate is a fraction          *)
(* num / den compared by cross-multiplication.                             *)
(***************************************************************************)
EXTENDS Integers, Sequences, FiniteSets, TLC

\* ---------------------------------------------------------------- bounds
MaxArms == 2      \* largest number of arms in a collection
MaxN == 2         \* largest pull budget num_simulations
MaxSims == 2      \* largest num_sims handed to simulate
MaxPulls == 3     \* cap on the total number of pulls of a behaviour
ParamDen == 2     \* true parameters are multiples of 1/ParamDen
EpsDen == 2       \* epsilon and uniform draws are multiples of 1/EpsDen
MaxGenerate == 2  \* cap on the direct generate calls of a behaviour
MaxDirect == 1    \* cap on the direct generate calls made before a strategy

\* Metrics.rounding_dp = 2: metric values are rounded to multiples of
\* 1/RoundingScale
RoundingScale == 100

\* decay rates are multiples of 1/DecayDen; the default decay_rate of
\* EpsilonDecreasingStrategy.__init__, 0.05, is DecayDefault / DecayDen
DecayDen == 20
DecayDefault == 1

VARIABLES
    bandits,      \* BanditCollection.bandits: sequence of arms
    results,      \* BanditCollection.results: the pull history
    strategy,     \* the strategy object driving the collection, if any
    pc,           \* "idle", or the run operation whose loop is executing
    todo,         \* iterations the executing loop still has to make
    call,         \* the most recent call and how it ended
    last,         \* the draw and the selector of the most recent simulate_one
    coll,         \* class and num_parameters of the collection, if built
    req           \* the most recent request made of the collection directly

vars == <<bandits, results, strategy, pc, todo, call, last, coll, req>>

\* ------------------------------------------------------------ arithmetic
RECURSIVE SumSeq(_)
\* sum(list) over a list of numbers
SumSeq(s) == IF s = <<>> THEN 0 ELSE Head(s) + SumSeq(Tail(s))

\* len(range(a, b))
RangeLen(a, b) == IF b > a THEN b - a ELSE 0

\* math.inf and finite quotients num / den (den > 0)
Inf == [inf |-> TRUE, num |-> 0, den |-> 1]
Quot(n, d) == [inf |-> FALSE, num |-> n, den |-> d]

\* x < y on floats that are inf or a quotient
FloatLt(x, y) ==
    IF x.inf THEN FALSE
    ELSE IF y.inf THEN TRUE
    ELSE x.num * y.den < y.num * x.den

\* x == y on floats that are inf or a quotient
FloatEq(x, y) ==
    IF x.inf \/ y.inf THEN x.inf /\ y.inf
    ELSE x.num * y.den = y.num * x.den

\* ------------------------------------------------------------------ arms
\* attributes Bandit.__init__ sets on an arm
BanditAttributes == {"parameter", "_results"}

\* Bandit.__init__ / BernoulliBandit.__init__ with a valid parameter
NewBandit(p) == [parameter |-> p, results |-> <<>>]

\* the true parameters the collections are built from, one parameter for
\* all arms of a collection: the two deterministic arms and one arm that
\* can return both values
Parameters == {0, 1, ParamDen}

\* TwoParameterBandit.__init__ / GaussianBandit.__init__ with valid parameters
NewGaussianBandit(p, s) ==
    [parameter |-> p, secondary_parameter |-> s, results |-> <<>>]

\* whether an arm has the attribute secondary_parameter
HasSecondary(b) == "secondary_parameter" \in DOMAIN b

\* the guard of BernoulliBandit.__init__ with <= and >= in place of < and >
BernoulliInitRaises_Strict(parameter) == parameter <= 0 \/ parameter >= ParamDen

\* the guard of BernoulliBandit.__init__
BernoulliInitRaises(parameter) == parameter < 0 \/ parameter > ParamDen

\* the guard of GaussianBandit.__init__ with <= in place of <
GaussianInitRaises_NonPositive(secondary_parameter) == secondary_parameter <= 0

\* the guard of GaussianBandit.__init__
GaussianInitRaises(secondary_parameter) == secondary_parameter < 0

\* generate with the observation assigned in place of appended
generate_Overwrite(bs, i, v) == [bs EXCEPT ![i].results = <<v>>]

\* generate of arm i of bs with sampled value v: self._results.append(result)
generate(bs, i, v) == [bs EXCEPT ![i].results = Append(@, v)]

\* Bandit.__len__
BanditLen(b) == Len(b.results)

\* outcomes of binomial(1, p) for p = parameter / ParamDen
Binomial(parameter) ==
    IF parameter = 0 THEN {0}
    ELSE IF parameter = ParamDen THEN {1}
    ELSE {0, 1}

\* outcomes of normal(loc, scale), in units of 1/ParamDen: loc itself for
\* scale 0, otherwise one value on either side of loc
Normal(loc, scale) == IF scale = 0 THEN {loc} ELSE {loc - scale, loc + scale}

\* the values generate can sample for an arm
Samples(b) ==
    IF HasSecondary(b) THEN Normal(b.parameter, b.secondary_parameter)
    ELSE Binomial(b.parameter)

\* the unit of an arm's observations: a Bernoulli arm records 0 or 1, a
\* Gaussian arm multiples of 1/ParamDen
ResultDen(b) == IF HasSecondary(b) THEN ParamDen ELSE 1

\* parameter_hat with 0 in place of inf for an arm without observations
parameter_hat_ZeroWhenEmpty(b) ==
    IF b.results = <<>> THEN Quot(0, 1)
    ELSE Quot(SumSeq(b.results), Len(b.results) * ResultDen(b))

\* BernoulliBandit.parameter_hat and GaussianBandit.parameter_hat
parameter_hat(b) ==
    IF b.results = <<>> THEN Inf
    ELSE Quot(SumSeq(b.results), Len(b.results) * ResultDen(b))

\* Bandit.__lt__ and Bandit.__eq__ applied to another arm: the arm's
\* estimate is compared with the other operand, whose reflected
\* comparison uses its own estimate
BanditLt(a, b) == FloatLt(parameter_hat(a), parameter_hat(b))
BanditEq(a, b) == FloatEq(parameter_hat(a), parameter_hat(b))
\* __gt__ as functools.total_ordering derives it from __lt__ and __eq__
BanditGt(a, b) == ~BanditLt(a, b) /\ ~BanditEq(a, b)

\* Bandit.__eq__ with the true parameter in place of the estimate
Bandit_eq_TrueParameter(b, v) == FloatEq(Quot(b.parameter, ParamDen), v)

\* Bandit.__eq__ and Bandit.__lt__ applied to a number v
Bandit_eq(b, v) == FloatEq(parameter_hat(b), v)
Bandit_lt(b, v) == FloatLt(parameter_hat(b), v)
\* __le__, __gt__ and __ge__ as functools.total_ordering derives them from
\* __lt__ and __eq__; != is the negation of __eq__
Bandit_le(b, v) == Bandit_lt(b, v) \/ Bandit_eq(b, v)
Bandit_gt(b, v) == ~Bandit_lt(b, v) /\ ~Bandit_eq(b, v)
Bandit_ge(b, v) == ~Bandit_lt(b, v)

\* ------------------------------------------------------------ collection
\* BanditCollection.simulation_num
RECURSIVE SumLens(_)
SumLens(bs) == IF bs = <<>> THEN 0 ELSE BanditLen(Head(bs)) + SumLens(Tail(bs))
simulation_num == SumLens(bandits)

\* max(self.bandits): position of the first arm no later arm is greater than
RECURSIVE MaxFrom(_, _, _)
MaxFrom(bs, m, i) ==
    IF i > Len(bs) THEN m
    ELSE IF BanditGt(bs[i], bs[m]) THEN MaxFrom(bs, i, i + 1)
    ELSE MaxFrom(bs, m, i + 1)
\* min(self.bandits) in place of max: the first arm no arm is less than
PyMax_Min(bs) ==
    CHOOSE i \in 1..Len(bs) :
        /\ \A j \in 1..Len(bs) : ~BanditLt(bs[j], bs[i])
        /\ \A j \in 1..(i - 1) : \E k \in 1..Len(bs) : BanditLt(bs[k], bs[j])

PyMax(bs) == MaxFrom(bs, 1, 2)

\* self.bandits.index(x): first position holding x itself or an equal arm
PyIndex(bs, m) ==
    CHOOSE i \in 1..Len(bs) :
        /\ i = m \/ BanditEq(bs[i], bs[m])
        /\ \A j \in 1..(i - 1) : ~(j = m \/ BanditEq(bs[j], bs[m]))

\* optimal_bandit returning the last of the arms equal to the maximum
optimal_bandit_Last ==
    CHOOSE i \in 1..Len(bandits) :
        /\ BanditEq(bandits[i], bandits[PyMax(bandits)])
        /\ \A j \in (i + 1)..Len(bandits) :
              ~BanditEq(bandits[j], bandits[PyMax(bandits)])

\* BanditCollection.optimal_bandit, as a position in bandits
optimal_bandit == PyIndex(bandits, PyMax(bandits))

\* BanditCollection.random_bandit: the positions choice() may return
random_bandit == 1..Len(bandits)

\* ---------------------------------------------- building a collection
CollectionClasses == {"BanditCollection", "TwoParameterBanditCollection"}
Distributions == {"bernoulli", "gaussian"}
NoCollection == [cls |-> "none", num_parameters |-> 0]

\* the default of the dataclass field num_parameters of each class
ClassArity(cls) == IF cls = "TwoParameterBanditCollection" THEN 2 ELSE 1

\* How bandit_type(*args) ends for the class distribution_factory returns:
\* BernoulliBandit takes one positional parameter, GaussianBandit two.
ArmOutcome(distribution, args) ==
    IF distribution = "bernoulli"
    THEN IF Len(args) # 1 THEN "TypeError"
         ELSE IF BernoulliInitRaises(args[1]) THEN "ValueError" ELSE "returned"
    ELSE IF Len(args) # 2 THEN "TypeError"
         ELSE IF GaussianInitRaises(args[2]) THEN "ValueError" ELSE "returned"

\* the arm bandit_type(*args) constructs
ArmBuilt(args) ==
    IF Len(args) = 1 THEN NewBandit(args[1])
    ELSE NewGaussianBandit(args[1], args[2])

\* the positional arguments the list comprehension of from_parameter_list
\* passes for element i: BanditCollection passes the parameter,
\* TwoParameterBanditCollection the i-th element of both lists
ArmArgs(cls, p1, p2, i) ==
    IF cls = "BanditCollection" THEN <<p1[i]>> ELSE <<p1[i], p2[i]>>

\* how the construction of element i ends: indexing the second list past
\* its end raises before the arm's constructor is called
ElementOutcome(cls, distribution, p1, p2, i) ==
    IF cls = "TwoParameterBanditCollection" /\ i > Len(p2) THEN "IndexError"
    ELSE ArmOutcome(distribution, ArmArgs(cls, p1, p2, i))

\* the outcome of a loop over os: the first one that is not "returned"
FirstFailure(os) ==
    IF \A i \in 1..Len(os) : os[i] = "returned" THEN "returned"
    ELSE os[CHOOSE i \in 1..Len(os) :
               /\ os[i] # "returned"
               /\ \A j \in 1..(i - 1) : os[j] = "returned"]

\* how from_parameter_list ends; it iterates over parameter_one_values
from_parameter_list_outcome(cls, distribution, p1, p2) ==
    FirstFailure([i \in 1..Len(p1) |-> ElementOutcome(cls, distribution, p1, p2, i)])

\* from_parameter_list with the arms collected in reverse order
from_parameter_list_Reversed(cls, p1, p2) ==
    [i \in 1..Len(p1) |-> ArmBuilt(ArmArgs(cls, p1, p2, Len(p1) + 1 - i))]

\* the list of arms from_parameter_list hands to cls(bandits=bandits)
from_parameter_list(cls, p1, p2) ==
    [i \in 1..Len(p1) |-> ArmBuilt(ArmArgs(cls, p1, p2, i))]

\* ------------------------------------------------ secondary-parameter views
SecondaryViews ==
    {"true_secondary_parameters", "estimated_secondary_parameters",
     "secondary_residuals"}

\* the views with every class having the secondary ones
ClassViews_OnBase(cls) == SecondaryViews

\* the secondary-parameter properties a collection class defines
ClassViews(cls) ==
    IF cls = "TwoParameterBanditCollection" THEN SecondaryViews ELSE {}

\* GaussianBandit.secondary_parameter_hat divides by len(self._results)
secondary_parameter_hat_raises(b) == Len(b.results) = 0

\* sum((result - parameter_hat)**2) / len(results) of an arm with n
\* observations summing to S is SquaredDeviations / n^3, in units of
\* 1/ParamDen^2
RECURSIVE SquaredDeviations(_, _, _)
SquaredDeviations(rs, n, S) ==
    IF rs = <<>> THEN 0
    ELSE (n * Head(rs) - S) * (n * Head(rs) - S) + SquaredDeviations(Tail(rs), n, S)

\* whether sqrt of that quotient is a rational number, and the integer r
\* with sqrt = r / n^3 when it is
IsSquare(m) == \E r \in 0..m : r * r = m
SecondaryHatNumerator(b) ==
    LET n == Len(b.results)
        V == SquaredDeviations(b.results, n, SumSeq(b.results))
    IN  CHOOSE r \in 0..(V * n * n * n) : r * r = V * n * n * n
secondary_parameter_hat_rational(b) ==
    LET n == Len(b.results)
    IN  n > 0 /\ IsSquare(SquaredDeviations(b.results, n, SumSeq(b.results)) * n * n * n)

\* GaussianBandit.secondary_parameter_hat, for an arm where it is rational
secondary_parameter_hat(b) ==
    LET n == Len(b.results)
    IN  Quot(SecondaryHatNumerator(b), n * n * n * ParamDen)

\* abs(bandit.secondary_residual): |secondary_parameter - secondary_parameter_hat|
AbsSecondaryResidual(b) ==
    LET e == secondary_parameter_hat(b)
        d == b.secondary_parameter * e.den - ParamDen * e.num
    IN  Quot(IF d < 0 THEN -d ELSE d, ParamDen * e.den)

\* how reading the arm attribute behind a view ends: secondary_parameter,
\* secondary_parameter_hat or secondary_residual
ArmViewOutcome(view, b) ==
    IF ~HasSecondary(b) THEN "AttributeError"
    ELSE IF view # "true_secondary_parameters" /\ secondary_parameter_hat_raises(b)
    THEN "ZeroDivisionError"
    ELSE "returned"

\* how reading a secondary-parameter view of a collection ends
ViewOutcome(cls, view, bs) ==
    IF view \notin ClassViews(cls) THEN "AttributeError"
    ELSE FirstFailure([i \in 1..Len(bs) |-> ArmViewOutcome(view, bs[i])])

\* TwoParameterBanditCollection.true_secondary_parameters
true_secondary_parameters(bs) == [i \in 1..Len(bs) |-> bs[i].secondary_parameter]

\* ------------------------------------------------------------ strategies
Kinds == {"greedy", "decreasing", "first"}
NoStrategy ==
    [kind |-> "none", num_simulations |-> 0, epsilon |-> 0, metrics |-> "none",
     decay_rate |-> 0]

\* the guard of SemiUniformStrategy.__init__: 0 > epsilon < 1
EpsilonRejected(epsilon) == 0 > epsilon /\ epsilon < EpsDen

\* attributes of self assigned before EpsilonDecreasingStrategy.__init__
\* reads self.decay_rate in its first statement
DecreasingInitAttributes == {}

\* the decay_rate argument of a constructor call: left out, or given
Absent == [given |-> FALSE, value |-> 0]
Given(d) == [given |-> TRUE, value |-> d]
DecayArgs == {-1, 0, DecayDefault, DecayDen, DecayDen + 1}

\* the value the parameter decay_rate of EpsilonDecreasingStrategy.__init__
\* is bound to: the argument, or the default of the signature
decay_rate_parameter(decay) == IF decay.given THEN decay.value ELSE DecayDefault

\* the guard of EpsilonDecreasingStrategy.__init__: 0 < decay_rate < 1 raises
DecayRejected(decay_rate) == 0 < decay_rate /\ decay_rate < DecayDen

\* ---------------------------------------------------------------- metrics
MetricsVariants == {"OneParameterMetrics", "TwoParameterMetrics"}

\* the class attribute num_parameters of the Metrics variants
MetricsArity(variant) == IF variant = "OneParameterMetrics" THEN 1 ELSE 2

\* the guard of __post_init__ with == in place of !=
MetricsPostInitRaises_Eq(variant, num_parameters) ==
    MetricsArity(variant) = num_parameters

\* the guard of Metrics.__post_init__
MetricsPostInitRaises(variant, num_parameters) ==
    MetricsArity(variant) # num_parameters

\* -inf and nan, which sums and quotients of residuals can produce
NegInf == [inf |-> TRUE, num |-> -1, den |-> 1]
NaN == [inf |-> TRUE, num |-> 0, den |-> 0]

\* x + y on floats
FloatAdd(x, y) ==
    IF x = NaN \/ y = NaN THEN NaN
    ELSE IF x.inf /\ y.inf THEN (IF x = y THEN x ELSE NaN)
    ELSE IF x.inf THEN x
    ELSE IF y.inf THEN y
    ELSE Quot(x.num * y.den + y.num * x.den, x.den * y.den)

\* sum(list) over a list of floats
RECURSIVE FloatSum(_)
FloatSum(xs) ==
    IF xs = <<>> THEN Quot(0, 1) ELSE FloatAdd(Head(xs), FloatSum(Tail(xs)))

\* x / (m / unit) for a float x and a non-zero number m / unit
FloatDiv(x, m, unit) ==
    IF x = NaN THEN NaN
    ELSE IF x.inf THEN (IF m > 0 THEN x ELSE IF x = Inf THEN NegInf ELSE Inf)
    ELSE IF m > 0 THEN Quot(x.num * unit, x.den * m)
    ELSE Quot(-(x.num * unit), x.den * (-m))

\* round(x, rounding_dp) of a float: the nearest multiple of 1/RoundingScale,
\* the even one of two equally near; inf and nan stay as they are
Round(x) ==
    IF x.inf THEN x
    ELSE LET n == RoundingScale * x.num
             f == n \div x.den
             r == n % x.den
         IN  Quot(IF 2 * r > x.den \/ (2 * r = x.den /\ f % 2 = 1) THEN f + 1 ELSE f,
                  RoundingScale)

\* abs(bandit.residual): |parameter - parameter_hat|, inf for an arm
\* without observations
AbsResidual(b) ==
    LET e == parameter_hat(b)
        d == b.parameter * e.den - ParamDen * e.num
    IN  IF e.inf THEN Inf
        ELSE Quot(IF d < 0 THEN -d ELSE d, ParamDen * e.den)

\* bandit.residual: parameter - parameter_hat, -inf for an arm without
\* observations
residual(b) ==
    LET e == parameter_hat(b)
    IN  IF e.inf THEN NegInf
        ELSE Quot(b.parameter * e.den - ParamDen * e.num, ParamDen * e.den)

\* map(abs, BanditCollection.residuals) and BanditCollection.true_parameters
abs_residuals(bs) == [i \in 1..Len(bs) |-> AbsResidual(bs[i])]
true_parameters(bs) == [i \in 1..Len(bs) |-> bs[i].parameter]

\* How Metrics._mae and Metrics._mape end: both divide by
\* len(self.bandit_collection), _mape also by each parameter.
Metrics_mae_outcome(bs) ==
    IF Len(bs) = 0 THEN "ZeroDivisionError" ELSE "returned"
Metrics_mape_outcome(bs, parameters) ==
    IF Len(bs) = 0 \/ \E i \in 1..Len(bs) : parameters[i] = 0
    THEN "ZeroDivisionError" ELSE "returned"

\* Metrics._mae(residuals) and Metrics._mape(residuals, parameters) on the
\* absolute residuals, when they return
Metrics_mae(absres) ==
    Round(FloatDiv(Round(FloatSum(absres)), Len(absres), 1))
Metrics_mape(absres, parameters) ==
    Round(FloatDiv(
        FloatSum([i \in 1..Len(absres) |-> FloatDiv(absres[i], parameters[i], ParamDen)]),
        Len(absres), 1))

\* Metrics.total_reward: the sum of bandit.reward, sum(self._results), over
\* the arms
RECURSIVE RewardOf(_)
RewardOf(bs) == IF bs = <<>> THEN 0 ELSE SumSeq(Head(bs).results) + RewardOf(Tail(bs))
total_reward == RewardOf(bandits)

\* Metrics.mae and Metrics.mape
mae == Metrics_mae(abs_residuals(bandits))
mape == Metrics_mape(abs_residuals(bandits), true_parameters(bandits))

\* TwoParameterMetrics.secondary_mae and secondary_mape: they pass
\* bandit_collection.residuals and bandit_collection.true_parameters
secondary_mae == Metrics_mae(abs_residuals(bandits))
secondary_mape == Metrics_mape(abs_residuals(bandits), true_parameters(bandits))

\* np.cumsum of the "value" items of the first k entries of the pull history
RECURSIVE CumSum(_, _)
CumSum(res, k) == IF k = 0 THEN 0 ELSE res[k].value + CumSum(res, k - 1)

\* the length numpy broadcasting gives the quotient of arrays of lengths a
\* and b, -1 when the shapes do not broadcast
BroadcastLen(a, b) ==
    IF a = b THEN a ELSE IF a = 1 THEN b ELSE IF b = 1 THEN a ELSE -1

\* How a read of Metrics.average_reward_timeseries ends: result["value"]
\* subscripts each entry of the pull history, then the cumulative sums are
\* divided by arange(1, num_simulations + 1).
average_reward_timeseries_outcome ==
    IF \E k \in 1..Len(results) : results[k].tag # "dict" THEN "TypeError"
    ELSE IF BroadcastLen(Len(results), simulation_num) = -1 THEN "ValueError"
    ELSE "returned"

\* the list Metrics.average_reward_timeseries returns, when it returns
average_reward_timeseries ==
    [k \in 1..BroadcastLen(Len(results), simulation_num) |->
        Round(Quot(CumSum(results, IF Len(results) = 1 THEN 1 ELSE k),
                   IF simulation_num = 1 THEN 1 ELSE k))]

\* the match statement of SemiUniformStrategy.__init__: the Metrics variant
\* constructed for a collection, none when no case matches
StrategyMetrics(num_parameters) ==
    IF num_parameters = 1 THEN "OneParameterMetrics"
    ELSE IF num_parameters = 2 THEN "TwoParameterMetrics"
    ELSE "none"

\* the decay_rate arguments a constructor of the kind is called with: only
\* EpsilonDecreasingStrategy.__init__ has the parameter
DecayInputs(kind) ==
    IF kind = "decreasing" THEN {Absent} \cup {Given(d) : d \in DecayArgs}
    ELSE {Absent}

\* How a strategy constructor ends.  EpsilonDecreasingStrategy.__init__
\* reads self.decay_rate in its guard before anything is assigned to self;
\* then SemiUniformStrategy.__init__ checks epsilon and constructs the
\* Metrics variant.
ConstructOutcome(kind, epsilon, decay, num_parameters) ==
    IF kind = "decreasing" /\ "decay_rate" \notin DecreasingInitAttributes
    THEN "AttributeError"
    ELSE IF kind = "decreasing" /\ DecayRejected(decay_rate_parameter(decay))
    THEN "ValueError"
    ELSE IF EpsilonRejected(epsilon) THEN "ValueError"
    ELSE IF /\ StrategyMetrics(num_parameters) # "none"
            /\ MetricsPostInitRaises(StrategyMetrics(num_parameters), num_parameters)
    THEN "ValueError"
    ELSE "returned"

\* the guard of full_simulation with > in place of >=
BudgetExhausted_Strict == simulation_num > strategy.num_simulations

\* the guard of full_simulation
BudgetExhausted == simulation_num >= strategy.num_simulations

\* _bandit_strategy with < in place of <=
Greedy_bandit_strategy_Strict(random_value) ==
    IF random_value < strategy.epsilon THEN "random" ELSE "optimal"

\* EpsilonGreedyStrategy._bandit_strategy: which property is read
Greedy_bandit_strategy(random_value) ==
    IF random_value <= strategy.epsilon THEN "random" ELSE "optimal"

\* exploitation_phase with < in place of <=
exploitation_phase_Strict ==
    strategy.epsilon * strategy.num_simulations < simulation_num * EpsDen

\* EpsilonFirstStrategy.exploitation_phase
exploitation_phase ==
    strategy.epsilon * strategy.num_simulations <= simulation_num * EpsDen

\* the argument of math.exp in EpsilonDecreasingStrategy.epsilon_curr at
\* pull counter n, in units of 1 / (EpsDen * DecayDen)
epsilon_curr_exponent(n) ==
    strategy.epsilon * DecayDen - strategy.decay_rate * n * EpsDen

\* the First selector going back to exploration after an exploitation step
Selector_Relapsing(u) ==
    IF strategy.kind = "greedy" THEN Greedy_bandit_strategy(u)
    ELSE IF exploitation_phase /\ last.sel # "optimal" THEN "optimal" ELSE "random"

\* the selector a simulate_one of the current strategy uses for draw u
Selector(u) ==
    IF strategy.kind = "greedy" THEN Greedy_bandit_strategy(u)
    ELSE IF exploitation_phase THEN "optimal" ELSE "random"

\* the uniform draws gen_random_uniform can return; the First strategy
\* draws none
Draws == IF strategy.kind = "greedy" THEN 0..EpsDen ELSE {-1}

\* whether simulate_one raises: the Greedy variant reads bandit.id, after
\* the arm has generated and before the append to results
SimulateOneRaises == strategy.kind = "greedy" /\ "id" \notin BanditAttributes

simulate_one_Reparameterised(u, i, v) ==
    LET sel == Selector(u)
    IN  /\ i \in (IF sel = "random" THEN random_bandit ELSE {optimal_bandit})
        /\ v \in Binomial(bandits[i].parameter)
        /\ bandits' = [generate(bandits, i, v) EXCEPT ![i].parameter = v]
        /\ results' =
              IF strategy.kind = "greedy"
              THEN IF "id" \in BanditAttributes
                   THEN Append(results, [tag |-> "dict", id |-> i, value |-> v])
                   ELSE results
              ELSE Append(results, [tag |-> "value", id |-> 0, value |-> v])
        /\ last' = [u |-> u, sel |-> sel]

\* The state change of one simulate_one with draw u, pulled arm i and
\* sampled value v.  The Greedy variant appends a dict with the arm's id
\* unless reading it raised; the First variant appends the bare value.
simulate_one(u, i, v) ==
    LET sel == Selector(u)
    IN  /\ i \in (IF sel = "random" THEN random_bandit ELSE {optimal_bandit})
        /\ v \in Binomial(bandits[i].parameter)
        /\ bandits' = generate(bandits, i, v)
        /\ results' =
              IF strategy.kind = "greedy"
              THEN IF "id" \in BanditAttributes
                   THEN Append(results, [tag |-> "dict", id |-> i, value |-> v])
                   ELSE results
              ELSE Append(results, [tag |-> "value", id |-> 0, value |-> v])
        /\ last' = [u |-> u, sel |-> sel]

\* the record of a call made in the current state
NewCall(op, kind, arg, outcome, steps) ==
    [op |-> op, kind |-> kind, arg |-> arg, outcome |-> outcome,
     c0 |-> simulation_num, r0 |-> Len(results), steps |-> steps,
     decay |-> Absent]

\* the record of a request made of the collection directly
NoArgs == [distribution |-> "none", p1 |-> <<>>, p2 |-> <<>>]
NoRequest ==
    [op |-> "none", name |-> "none", arm |-> 0, args |-> NoArgs,
     outcome |-> "returned", value |-> <<>>]
NewRequest(op, name, arm, args, outcome, value) ==
    [op |-> op, name |-> name, arm |-> arm, args |-> args,
     outcome |-> outcome, value |-> value]

\* the parameter lists from_parameter_list is called with: for Bernoulli
\* arms values below, at the ends of, inside and above [0, 1]; for Gaussian
\* arms a negative and a positive location, and scales around 0
SeqsUpTo(S, n) == UNION {[1..k -> S] : k \in 0..n}
ParamOneValues(distribution) ==
    IF distribution = "bernoulli" THEN {-1, 0, 1, ParamDen, ParamDen + 1}
    ELSE {-1, 1}
ParamTwoValues == {-1, 0, 1}
ParamTwoLists(cls) ==
    IF cls = "BanditCollection" THEN {<<>>}
    ELSE SeqsUpTo(ParamTwoValues, MaxArms)

\* --------------------------------------------------------------- actions
Init ==
    /\ \E k \in 1..MaxArms : \E p \in Parameters :
          bandits = [i \in 1..k |-> NewBandit(p)]
    /\ results = <<>>
    /\ strategy = NoStrategy
    /\ pc = "idle"
    /\ todo = 0
    /\ call = [op |-> "none", kind |-> "none", arg |-> 0, outcome |-> "returned",
               c0 |-> 0, r0 |-> 0, steps |-> 0, decay |-> Absent]
    /\ last = [u |-> -1, sel |-> "none"]
    /\ coll = [cls |-> "BanditCollection", num_parameters |-> 1]
    /\ req = NoRequest

\* SemiUniformStrategy.__init__ and its subclasses' __init__
Construct(kind, n, epsilon, decay) ==
    /\ pc = "idle"
    /\ strategy.kind = "none"
    /\ LET outcome == ConstructOutcome(kind, epsilon, decay, coll.num_parameters)
       IN  /\ call' = [NewCall("construct", kind, epsilon, outcome, 0)
                          EXCEPT !.decay = decay]
           /\ strategy' =
                 IF outcome = "returned"
                 THEN [kind |-> kind, num_simulations |-> n, epsilon |-> epsilon,
                       metrics |-> StrategyMetrics(coll.num_parameters),
                       decay_rate |-> IF kind = "decreasing"
                                      THEN decay_rate_parameter(decay) ELSE 0]
                 ELSE strategy
    /\ UNCHANGED <<bandits, results, pc, todo, last, coll, req>>

\* simulate_one with the sampled value appended to every arm
SimulateOne_PullsAll ==
    /\ pc = "idle"
    /\ strategy.kind # "none"
    /\ simulation_num < MaxPulls
    /\ \E u \in Draws : \E v \in {0, 1} :
          /\ bandits' = [i \in 1..Len(bandits) |->
                            [bandits[i] EXCEPT !.results = Append(@, v)]]
          /\ results' = Append(results, [tag |-> "value", id |-> 0, value |-> v])
          /\ last' = [u |-> u, sel |-> Selector(u)]
    /\ call' = NewCall("simulate_one", strategy.kind, 0,
                       IF SimulateOneRaises THEN "AttributeError" ELSE "returned", 1)
    /\ UNCHANGED <<strategy, pc, todo, coll, req>>

\* a direct call of simulate_one
SimulateOne ==
    /\ pc = "idle"
    /\ strategy.kind # "none"
    /\ simulation_num < MaxPulls
    /\ \E u \in Draws : \E i \in 1..Len(bandits) : \E v \in {0, 1} :
          simulate_one(u, i, v)
    /\ call' = NewCall("simulate_one", strategy.kind, 0,
                       IF SimulateOneRaises THEN "AttributeError" ELSE "returned", 1)
    /\ UNCHANGED <<strategy, pc, todo, coll, req>>

\* full_simulation up to the start of its loop
FullSimulation ==
    /\ pc = "idle"
    /\ strategy.kind # "none"
    /\ strategy.num_simulations <= MaxPulls
    /\ IF BudgetExhausted
       THEN /\ call' = NewCall("full_simulation", strategy.kind, 0, "Exception", 0)
            /\ UNCHANGED <<pc, todo>>
       ELSE LET n == RangeLen(simulation_num, strategy.num_simulations)
            IN  IF n = 0
                THEN /\ call' = NewCall("full_simulation", strategy.kind, 0, "returned", 0)
                     /\ UNCHANGED <<pc, todo>>
                ELSE /\ call' = NewCall("full_simulation", strategy.kind, 0, "running", 0)
                     /\ pc' = "full_simulation"
                     /\ todo' = n
    /\ UNCHANGED <<bandits, results, strategy, last, coll, req>>

\* simulate(num_sims) up to the start of its loop
Simulate(num_sims) ==
    /\ pc = "idle"
    /\ strategy.kind # "none"
    /\ simulation_num + num_sims <= MaxPulls
    /\ LET n == RangeLen(0, num_sims)
       IN  IF n = 0
           THEN /\ call' = NewCall("simulate", strategy.kind, num_sims, "returned", 0)
                /\ UNCHANGED <<pc, todo>>
           ELSE /\ call' = NewCall("simulate", strategy.kind, num_sims, "running", 0)
                /\ pc' = "simulate"
                /\ todo' = n
    /\ UNCHANGED <<bandits, results, strategy, last, coll, req>>

\* one iteration of the loop of full_simulation or simulate: a simulate_one
\* whose exception, if any, ends the run
LoopStep ==
    /\ pc # "idle"
    /\ todo > 0
    /\ \E u \in Draws : \E i \in 1..Len(bandits) : \E v \in {0, 1} :
          simulate_one(u, i, v)
    /\ IF SimulateOneRaises
       THEN /\ call' = [call EXCEPT !.outcome = "AttributeError", !.steps = @ + 1]
            /\ pc' = "idle"
            /\ todo' = 0
       ELSE /\ todo' = todo - 1
            /\ pc' = IF todo = 1 THEN "idle" ELSE pc
            /\ call' = [call EXCEPT !.steps = @ + 1,
                                    !.outcome = IF todo = 1 THEN "returned" ELSE @]
    /\ UNCHANGED <<strategy, coll, req>>

\* ------------------------------------- actions on a collection directly
CollectionInit ==
    /\ bandits = <<>>
    /\ results = <<>>
    /\ strategy = NoStrategy
    /\ pc = "idle"
    /\ todo = 0
    /\ call = [op |-> "none", kind |-> "none", arg |-> 0, outcome |-> "returned",
               c0 |-> 0, r0 |-> 0, steps |-> 0, decay |-> Absent]
    /\ last = [u |-> -1, sel |-> "none"]
    /\ coll = NoCollection
    /\ req = NoRequest

\* the state change of cls.from_parameter_list(distribution, p1) or
\* (distribution, p1, p2): the collection cls(bandits=bandits) unless the
\* list comprehension raised
BuildCollection(cls, distribution, p1, p2) ==
    LET outcome == from_parameter_list_outcome(cls, distribution, p1, p2)
        args == [distribution |-> distribution, p1 |-> p1, p2 |-> p2]
    IN  /\ req' = NewRequest("from_parameter_list", cls, 0, args, outcome, <<>>)
        /\ IF outcome = "returned"
           THEN /\ bandits' = from_parameter_list(cls, p1, p2)
                /\ results' = <<>>
                /\ coll' = [cls |-> cls, num_parameters |-> ClassArity(cls)]
           ELSE UNCHANGED <<bandits, results, coll>>

\* the first request of a behaviour: a from_parameter_list call
FromParameterList ==
    /\ coll.cls = "none"
    /\ req.op = "none"
    /\ \E cls \in CollectionClasses : \E distribution \in Distributions :
          \E p1 \in SeqsUpTo(ParamOneValues(distribution), MaxArms) :
             \E p2 \in ParamTwoLists(cls) :
                BuildCollection(cls, distribution, p1, p2)
    /\ UNCHANGED <<strategy, pc, todo, call, last>>

\* bandit.generate() on an arm i of the collection
Generate ==
    /\ coll.cls # "none"
    /\ simulation_num < MaxGenerate
    /\ \E i \in 1..Len(bandits) : \E v \in Samples(bandits[i]) :
          /\ bandits' = generate(bandits, i, v)
          /\ req' = NewRequest("generate", "generate", i, NoArgs, "returned", <<v>>)
    /\ UNCHANGED <<results, strategy, pc, todo, call, last, coll>>

\* reading a secondary-parameter view of the collection
View(view) ==
    /\ coll.cls # "none"
    /\ LET outcome == ViewOutcome(coll.cls, view, bandits)
       IN  req' = NewRequest("view", view, 0, NoArgs, outcome,
                    IF outcome = "returned" /\ view = "true_secondary_parameters"
                    THEN true_secondary_parameters(bandits) ELSE <<>>)
    /\ UNCHANGED <<bandits, results, strategy, pc, todo, call, last, coll>>

\* a read of parameter_hat that drops the oldest observation it summed
ReadParameterHat_Draining(i) ==
    /\ req' = NewRequest("parameter_hat", "parameter_hat", i, NoArgs, "returned",
                         <<parameter_hat(bandits[i])>>)
    /\ bandits' = [bandits EXCEPT ![i].results =
                      IF @ = <<>> THEN @ ELSE Tail(@)]

\* the state change of reading bandits[i].parameter_hat: the value is
\* returned, nothing is assigned
ReadParameterHat(i) ==
    /\ req' = NewRequest("parameter_hat", "parameter_hat", i, NoArgs, "returned",
                         <<parameter_hat(bandits[i])>>)
    /\ bandits' = bandits

\* a read of parameter_hat on an arm of the collection
ParameterHat ==
    /\ coll.cls # "none"
    /\ \E i \in 1..Len(bandits) : ReadParameterHat(i)
    /\ UNCHANGED <<results, strategy, pc, todo, call, last, coll>>

\* the read-only properties of a collection and of the Metrics object
\* holding it, and those of one arm
ReadOps ==
    {"simulation_num", "optimal_bandit", "random_bandit",
     "num_simulations", "total_reward", "mae", "mape"}
ArmReadOps == {"residual", "reward", "len"}

\* How a read of the property ends: max() and choice() raise on an empty
\* list, _mae and _mape divide
ReadOutcome(name) ==
    IF name = "mae" THEN Metrics_mae_outcome(bandits)
    ELSE IF name = "mape"
    THEN Metrics_mape_outcome(bandits, true_parameters(bandits))
    ELSE IF name = "optimal_bandit" /\ Len(bandits) = 0 THEN "ValueError"
    ELSE IF name = "random_bandit" /\ Len(bandits) = 0 THEN "IndexError"
    ELSE "returned"

\* the values a read of the property can return (arms as positions)
ReadValues(name) ==
    IF name = "mae" THEN {<<mae>>}
    ELSE IF name = "mape" THEN {<<mape>>}
    ELSE IF name = "optimal_bandit" THEN {<<optimal_bandit>>}
    ELSE IF name = "random_bandit" THEN {<<i>> : i \in random_bandit}
    ELSE IF name = "total_reward" THEN {<<total_reward>>}
    ELSE {<<simulation_num>>}

\* the value a read of the property of arm i returns
ArmReadValue(name, i) ==
    IF name = "residual" THEN <<residual(bandits[i])>>
    ELSE IF name = "reward" THEN <<SumSeq(bandits[i].results)>>
    ELSE <<BanditLen(bandits[i])>>

\* a read that empties the observations of the arms it went through
ReadEffect_Consuming ==
    /\ bandits' = [i \in 1..Len(bandits) |-> [bandits[i] EXCEPT !.results = <<>>]]
    /\ results' = results

\* the state change of a read: the properties assign nothing
ReadEffect ==
    /\ bandits' = bandits
    /\ results' = results

\* a read of a property of the collection or of its Metrics object
Read ==
    /\ coll.cls # "none"
    /\ \E name \in ReadOps :
          IF ReadOutcome(name) = "returned"
          THEN \E v \in ReadValues(name) :
                  req' = NewRequest("read", name, 0, NoArgs, "returned", v)
          ELSE req' = NewRequest("read", name, 0, NoArgs, ReadOutcome(name), <<>>)
    /\ ReadEffect
    /\ UNCHANGED <<strategy, pc, todo, call, last, coll>>

\* a read of a property of one arm of the collection
ArmRead ==
    /\ coll.cls # "none"
    /\ \E name \in ArmReadOps : \E i \in 1..Len(bandits) :
          req' = NewRequest("read", name, i, NoArgs, "returned",
                            ArmReadValue(name, i))
    /\ ReadEffect
    /\ UNCHANGED <<strategy, pc, todo, call, last, coll>>

\* OneParameterMetrics(collection) or TwoParameterMetrics(collection)
NewMetrics(variant) ==
    /\ coll.cls # "none"
    /\ req' = NewRequest("metrics", variant, 0, NoArgs,
                 IF MetricsPostInitRaises(variant, coll.num_parameters)
                 THEN "ValueError" ELSE "returned", <<>>)
    /\ UNCHANGED <<bandits, results, strategy, pc, todo, call, last, coll>>

\* a strategy constructor called with the collection; the request records
\* the Metrics variant the new strategy holds
NewStrategy(kind, epsilon) ==
    /\ coll.cls # "none"
    /\ LET outcome == ConstructOutcome(kind, epsilon, Absent, coll.num_parameters)
       IN  req' = NewRequest("strategy", kind, 0, NoArgs, outcome,
                    IF outcome = "returned"
                    THEN <<StrategyMetrics(coll.num_parameters)>> ELSE <<>>)
    /\ UNCHANGED <<bandits, results, strategy, pc, todo, call, last, coll>>

CollectionNext ==
    \/ FromParameterList
    \/ Generate
    \/ ParameterHat
    \/ \E view \in SecondaryViews : View(view)
    \/ \E variant \in MetricsVariants : NewMetrics(variant)
    \/ \E kind \in Kinds : \E epsilon \in (-1)..(EpsDen + 1) : NewStrategy(kind, epsilon)

CollectionSpec == CollectionInit /\ [][CollectionNext]_vars

\* the collection with the reads of its properties and of its Metrics
ReadNext ==
    \/ CollectionNext
    \/ Read
    \/ ArmRead

ReadSpec == CollectionInit /\ [][ReadNext]_vars

Next ==
    \/ \E kind \in Kinds : \E n \in 0..MaxN : \E epsilon \in (-1)..(EpsDen + 1) :
          \E decay \in DecayInputs(kind) : Construct(kind, n, epsilon, decay)
    \/ SimulateOne
    \/ FullSimulation
    \/ \E num_sims \in 0..MaxSims : Simulate(num_sims)
    \/ LoopStep

Spec == Init /\ [][Next]_vars

\* --------------------------- strategies on a collection already in use
\* a direct generate of an arm of the collection, made before a strategy
\* is constructed on it: no entry is appended to the collection's results
DirectGenerate ==
    /\ strategy.kind = "none"
    /\ simulation_num < MaxDirect
    /\ \E i \in 1..Len(bandits) : \E v \in Binomial(bandits[i].parameter) :
          bandits' = generate(bandits, i, v)
    /\ UNCHANGED <<results, strategy, pc, todo, call, last, coll, req>>

\* a second strategy constructed on the collection once the first call of
\* the first strategy has pulled; the later calls are made of the new one,
\* which has taken no step yet
Reconstruct ==
    /\ pc = "idle"
    /\ strategy.kind # "none"
    /\ call.op # "construct" /\ call.c0 = 0
    /\ simulation_num > 0
    /\ \E kind \in Kinds : \E n \in 0..MaxN : \E epsilon \in (-1)..(EpsDen + 1) :
          \E decay \in DecayInputs(kind) :
             LET outcome == ConstructOutcome(kind, epsilon, decay, coll.num_parameters)
             IN  /\ call' = [NewCall("construct", kind, epsilon, outcome, 0)
                                EXCEPT !.decay = decay]
                 /\ strategy' =
                       IF outcome = "returned"
                       THEN [kind |-> kind, num_simulations |-> n,
                             epsilon |-> epsilon,
                             metrics |-> StrategyMetrics(coll.num_parameters),
                             decay_rate |-> IF kind = "decreasing"
                                            THEN decay_rate_parameter(decay) ELSE 0]
                       ELSE strategy
                 /\ last' = IF outcome = "returned"
                            THEN [u |-> -1, sel |-> "none"] ELSE last
    /\ UNCHANGED <<bandits, results, pc, todo, coll, req>>

ReuseNext ==
    \/ Next
    \/ DirectGenerate
    \/ Reconstruct

ReuseSpec == Init /\ [][ReuseNext]_vars

\* ----------------------------------------------------------- properties
Fresh == call.c0 = 0 /\ call.r0 = 0
Unpulled(i) == bandits[i].results = <<>>

\* C1: in every reachable state the arms' observation counts add up to the
\* length of the pull history, and the strategy's pull counter
\* (simulation_num, the sum of the arms' lengths) equals that length.
C1_CountsMatchHistory ==
    /\ SumLens(bandits) = Len(results)
    /\ simulation_num = Len(results)

\* C2: a full_simulation called with counter c < N has, when it ends,
\* returned after exactly N - c steps with the counter and the length of
\* the pull history both equal to N.
C2_FullSimulationReachesBudget ==
    (call.op = "full_simulation" /\ pc = "idle"
        /\ call.c0 < strategy.num_simulations)
    => /\ call.outcome = "returned"
       /\ call.steps = strategy.num_simulations - call.c0
       /\ simulation_num = strategy.num_simulations
       /\ Len(results) = strategy.num_simulations

C4_SimulateRunsExactly ==
    (call.op = "simulate" /\ pc = "idle")
    => /\ call.outcome = "returned"
       /\ call.steps = call.arg
       /\ simulation_num = call.c0 + call.arg
       /\ Len(results) = call.r0 + call.arg

\* C5: every simulate_one call completes, advances the counter by one and
\* appends one entry to the pull history.
C5_StepAdvancesByOne ==
    call.op = "simulate_one"
    => /\ call.outcome = "returned"
       /\ simulation_num = call.c0 + 1
       /\ Len(results) = call.r0 + 1

\* C6: an arm without observations has estimate +infinity, and while some
\* arm has never been pulled optimal_bandit is a never-pulled arm.
C6_UnpulledArmIsOptimal ==
    /\ \A i \in 1..Len(bandits) :
          Unpulled(i) => parameter_hat(bandits[i]) = Inf
    /\ (\E i \in 1..Len(bandits) : Unpulled(i)) => Unpulled(optimal_bandit)

C6_Witness ==
    /\ Len(bandits) >= 2
    /\ ~Unpulled(1)
    /\ parameter_hat(bandits[1]) = Quot(1, 1)
    /\ Unpulled(2)
    /\ optimal_bandit = 2

\* C7: once a full_simulation of a Greedy strategy with 0 < epsilon < 1 on
\* a fresh collection of at most N arms has ended, every arm has been
\* pulled at least once.
C7_GreedyRunPullsEveryArm ==
    (call.op = "full_simulation" /\ pc = "idle" /\ call.kind = "greedy"
        /\ Fresh /\ call.outcome # "Exception"
        /\ 0 < strategy.epsilon /\ strategy.epsilon < EpsDen
        /\ Len(bandits) <= strategy.num_simulations)
    => \A i \in 1..Len(bandits) : ~Unpulled(i)

\* C8: in a full_simulation of a First strategy on a fresh collection with
\* epsilon * N an integer T, pull i (the pull that brings the counter to i)
\* uses random_bandit for i <= T and optimal_bandit for i > T.
C8_FirstPhases ==
    (call.op = "full_simulation" /\ call.kind = "first" /\ Fresh
        /\ call.steps > 0
        /\ (strategy.epsilon * strategy.num_simulations) % EpsDen = 0)
    => LET T == (strategy.epsilon * strategy.num_simulations) \div EpsDen
       IN  /\ simulation_num = call.steps
           /\ simulation_num <= T => last.sel = "random"
           /\ simulation_num > T => last.sel = "optimal"

C8_Witness ==
    /\ call.op = "full_simulation" /\ call.kind = "first" /\ Fresh
    /\ call.outcome = "returned"
    /\ strategy.epsilon * strategy.num_simulations = EpsDen
    /\ strategy.num_simulations > 1
    /\ simulation_num = strategy.num_simulations
    /\ last.sel = "optimal"

C10_EpsilonRange ==
    call.op = "construct"
    => (call.outcome = "returned" <=> (0 <= call.arg /\ call.arg <= EpsDen))

\* C11: constructing a Decreasing strategy with a valid epsilon and a
\* supplied decay rate succeeds exactly when the decay rate is strictly
\* inside (0, 1).
C11_DecayRateRange ==
    (call.op = "construct" /\ call.kind = "decreasing" /\ call.decay.given
        /\ 0 <= call.arg /\ call.arg <= EpsDen)
    => (call.outcome = "returned"
           <=> (0 < call.decay.value /\ call.decay.value < DecayDen))

\* C12: constructing a Decreasing strategy without a decay rate fails for
\* the absence: it fails, and not the way the construction with the
\* default value 0.05 supplied ends.
C12_MissingDecayRateRejected ==
    (call.op = "construct" /\ call.kind = "decreasing" /\ ~call.decay.given
        /\ 0 <= call.arg /\ call.arg <= EpsDen)
    => /\ call.outcome # "returned"
       /\ call.outcome # ConstructOutcome("decreasing", call.arg,
                                          Given(DecayDefault), coll.num_parameters)

\* the last request was cls.from_parameter_list for the distribution
Built(cls, distribution) ==
    /\ req.op = "from_parameter_list"
    /\ req.name = cls
    /\ req.args.distribution = distribution

\* C13: building Bernoulli arms fails, with a ValueError, exactly when some
\* parameter is below 0 or above 1; 0 and 1 themselves are accepted.
C13_BernoulliParameterRange ==
    Built("BanditCollection", "bernoulli")
    => /\ req.outcome \in {"returned", "ValueError"}
       /\ req.outcome = "ValueError"
             <=> \E i \in 1..Len(req.args.p1) :
                    req.args.p1[i] < 0 \/ req.args.p1[i] > ParamDen

C13_Witness ==
    /\ Built("BanditCollection", "bernoulli")
    /\ req.args.p1 = <<0, ParamDen>>
    /\ req.outcome = "returned"
    /\ Len(bandits) = 2

\* C14: building Gaussian arms from two lists of equal length fails, with a
\* ValueError, exactly when some scale is negative; scale 0 and every
\* location are accepted.
C14_GaussianScaleRange ==
    (Built("TwoParameterBanditCollection", "gaussian")
        /\ Len(req.args.p1) = Len(req.args.p2))
    => /\ req.outcome \in {"returned", "ValueError"}
       /\ req.outcome = "ValueError"
             <=> \E i \in 1..Len(req.args.p2) : req.args.p2[i] < 0

C14_Witness ==
    /\ Built("TwoParameterBanditCollection", "gaussian")
    /\ req.args.p1 = <<-1>>
    /\ req.args.p2 = <<0>>
    /\ req.outcome = "returned"
    /\ bandits[1].secondary_parameter = 0

\* C15: BanditCollection.from_parameter_list on a list of n valid Bernoulli
\* parameters returns a collection of n arms, the i-th with the i-th
\* parameter, every arm without observations, and an empty pull history.
C15_FromParameterListRoundTrip ==
    (Built("BanditCollection", "bernoulli")
        /\ \A i \in 1..Len(req.args.p1) :
              0 <= req.args.p1[i] /\ req.args.p1[i] <= ParamDen)
    => /\ req.outcome = "returned"
       /\ coll.cls = "BanditCollection"
       /\ Len(bandits) = Len(req.args.p1)
       /\ \A i \in 1..Len(req.args.p1) :
             /\ bandits[i].parameter = req.args.p1[i]
             /\ bandits[i].results = <<>>
       /\ results = <<>>

C15_Witness ==
    /\ Built("BanditCollection", "bernoulli")
    /\ req.args.p1 = <<ParamDen, 1>>
    /\ bandits[1].parameter = ParamDen
    /\ bandits[2].parameter = 1

\* C16: TwoParameterBanditCollection.from_parameter_list with lists of
\* different lengths fails and produces no collection.
C16_LengthMismatchRejected ==
    (req.op = "from_parameter_list" /\ req.name = "TwoParameterBanditCollection"
        /\ Len(req.args.p1) # Len(req.args.p2))
    => /\ req.outcome # "returned"
       /\ coll.cls = "none"

\* C17: every read of a secondary-parameter view of a two-parameter
\* collection returns without error.
C17_SecondaryViewsTotal ==
    (req.op = "view" /\ coll.cls = "TwoParameterBanditCollection")
    => req.outcome = "returned"

\* C18: every read of a secondary-parameter view of a one-parameter
\* collection fails and leaves the arms, the pull history and the
\* collection as they were.
C18_OneParameterViewFails ==
    [][(coll.cls = "BanditCollection" /\ req'.op = "view")
       => /\ req'.name \in SecondaryViews
          /\ req'.outcome = "AttributeError"
          /\ bandits' = bandits
          /\ results' = results
          /\ coll' = coll]_vars

C18_Witness ==
    /\ coll.cls = "BanditCollection"
    /\ req.op = "view"
    /\ req.name = "true_secondary_parameters"
    /\ req.outcome = "AttributeError"
    /\ simulation_num > 0

\* C19: OneParameterMetrics is constructed exactly on collections with
\* num_parameters 1 and TwoParameterMetrics exactly on those with 2, the
\* other constructions raising ValueError; and a constructed strategy
\* holds the variant of its collection's num_parameters.
C19_MetricsArity ==
    /\ req.op = "metrics"
          => LET expected == IF req.name = "OneParameterMetrics" THEN 1 ELSE 2
             IN  /\ req.outcome \in {"returned", "ValueError"}
                 /\ req.outcome = "ValueError" <=> expected # coll.num_parameters
    /\ (req.op = "strategy" /\ req.outcome = "returned")
          => /\ coll.num_parameters = 1 => req.value = <<"OneParameterMetrics">>
             /\ coll.num_parameters = 2 => req.value = <<"TwoParameterMetrics">>
    /\ (call.op = "construct" /\ call.outcome = "returned")
          => /\ coll.num_parameters = 1 => strategy.metrics = "OneParameterMetrics"
             /\ coll.num_parameters = 2 => strategy.metrics = "TwoParameterMetrics"

C19_Witness ==
    /\ req.op = "metrics"
    /\ req.name = "TwoParameterMetrics"
    /\ coll.num_parameters = 1
    /\ req.outcome = "ValueError"
    /\ simulation_num > 0

\* C20: a generate on an arm appends the returned value to the end of that
\* arm's observations, 0 or 1 for a Bernoulli arm, and no step shortens or
\* rewrites the observations an arm already has.
C20_GenerateAppends ==
    [][/\ \A i \in 1..Len(bandits) :
             /\ Len(bandits') = Len(bandits)
             /\ Len(bandits'[i].results) >= Len(bandits[i].results)
             /\ SubSeq(bandits'[i].results, 1, Len(bandits[i].results))
                   = bandits[i].results
       /\ req'.op = "generate"
             => /\ req'.arm \in 1..Len(bandits)
                /\ req'.outcome = "returned"
                /\ Len(req'.value) = 1
                /\ bandits'[req'.arm].results
                      = Append(bandits[req'.arm].results, req'.value[1])
                /\ ~HasSecondary(bandits[req'.arm]) => req'.value[1] \in {0, 1}]_vars

C20_Witness ==
    /\ req.op = "generate"
    /\ Len(bandits[req.arm].results) = 2
    /\ bandits[req.arm].results[2] = req.value[1]
    /\ bandits[req.arm].results[1] # req.value[1]

\* C21: a read of parameter_hat that directly follows a read of parameter_hat
\* on the same arm returns the same value, and the value read on an arm
\* without observations is +infinity.
C21_EstimateReadIdempotent ==
    [][/\ (req.op = "parameter_hat" /\ req'.op = "parameter_hat"
             /\ req'.arm = req.arm)
          => req'.value = req.value
       /\ (req'.op = "parameter_hat" /\ bandits[req'.arm].results = <<>>)
          => req'.value = <<Inf>>]_vars

C21_Witness ==
    /\ req.op = "parameter_hat"
    /\ Len(bandits[req.arm].results) = 2
    /\ req.value = <<Quot(1, 2)>>

\* the numbers arms are compared with, and the order of the extended reals
\* on them: x <= y
Numbers == {Quot(-1, 1), Quot(0, 1), Quot(1, 2), Quot(2, 4), Quot(1, 1), Inf}
RealLe(x, y) ==
    IF y.inf THEN TRUE
    ELSE IF x.inf THEN FALSE
    ELSE x.num * y.den <= y.num * x.den

\* C22: each comparison of an arm with a number v is the comparison of the
\* arm's estimate with v, and the comparisons of two arms order them by
\* their estimates: exactly one of <, ==, > holds, == for equal estimates.
C22_ComparisonsByEstimate ==
    /\ \A i \in 1..Len(bandits) : \A v \in Numbers :
          LET b == bandits[i]
              e == parameter_hat(b)
          IN  /\ Bandit_eq(b, v) <=> (RealLe(e, v) /\ RealLe(v, e))
              /\ Bandit_lt(b, v) <=> ~RealLe(v, e)
              /\ Bandit_le(b, v) <=> RealLe(e, v)
              /\ Bandit_gt(b, v) <=> ~RealLe(e, v)
              /\ Bandit_ge(b, v) <=> RealLe(v, e)
    /\ \A i, j \in 1..Len(bandits) :
          LET a == bandits[i]
              b == bandits[j]
              ea == parameter_hat(a)
              eb == parameter_hat(b)
          IN  /\ BanditEq(a, b) <=> (RealLe(ea, eb) /\ RealLe(eb, ea))
              /\ BanditLt(a, b) <=> ~RealLe(eb, ea)
              /\ BanditGt(a, b) <=> ~RealLe(ea, eb)
              /\ BanditLt(a, b) <=> BanditGt(b, a)

C22_Witness ==
    /\ Len(bandits) >= 2
    /\ parameter_hat(bandits[1]) = Quot(1, 2)
    /\ Bandit_eq(bandits[1], Quot(2, 4))
    /\ Unpulled(2)
    /\ BanditLt(bandits[1], bandits[2])
    /\ Bandit_ge(bandits[2], Inf)

\* C23: optimal_bandit is an arm of the collection whose estimate is >= the
\* estimate of every arm, and the lowest-indexed of the arms with that
\* estimate.
C23_OptimalIsFirstMaximum ==
    /\ optimal_bandit \in 1..Len(bandits)
    /\ \A j \in 1..Len(bandits) :
          RealLe(parameter_hat(bandits[j]), parameter_hat(bandits[optimal_bandit]))
    /\ \A j \in 1..(optimal_bandit - 1) :
          ~RealLe(parameter_hat(bandits[optimal_bandit]), parameter_hat(bandits[j]))

C23_Witness ==
    /\ Len(bandits) >= 2
    /\ parameter_hat(bandits[1]) = Quot(2, 2)
    /\ parameter_hat(bandits[2]) = Quot(1, 1)
    /\ optimal_bandit = 1

\* C24: every pull a strategy executes appends to the pull history one
\* entry naming the pulled arm and carrying the value the pull appended to
\* that arm's observations, and no step changes the earlier entries.
C24_HistoryLogsPulls ==
    [][/\ Len(results') >= Len(results)
       /\ SubSeq(results', 1, Len(results)) = results
       /\ simulation_num' = simulation_num + 1
             => \E i \in 1..Len(bandits) :
                   /\ bandits'[i] # bandits[i]
                   /\ results' = Append(results,
                         [tag |-> "dict", id |-> i,
                          value |-> bandits'[i].results[Len(bandits'[i].results)]])]_vars

\* values of the first k entries of the pull history, summed
RECURSIVE RewardSum(_, _)
RewardSum(res, k) == IF k = 0 THEN 0 ELSE res[k].value + RewardSum(res, k - 1)

\* C25: once a run of a strategy has ended, average_reward_timeseries has
\* one entry for each pull executed so far, the k-th being the mean (to the
\* metrics' two decimals) of the values of the first k pull-history entries.
C25_AverageRewardTimeseries ==
    (call.op \in {"full_simulation", "simulate"} /\ pc = "idle" /\ call.steps > 0)
    => /\ average_reward_timeseries_outcome = "returned"
       /\ Len(average_reward_timeseries) = simulation_num
       /\ Len(results) = simulation_num
       /\ \A k \in 1..simulation_num :
             FloatEq(average_reward_timeseries[k],
                     Round(Quot(RewardSum(results, k), k)))

\* C26: on a two-parameter collection secondary_mae and secondary_mape are
\* the mean absolute error and mean absolute percentage error of the
\* secondary residuals against the true secondary parameters.
C26_SecondaryErrorsUseSecondary ==
    (/\ coll.cls = "TwoParameterBanditCollection"
     /\ Len(bandits) > 0
     /\ \A i \in 1..Len(bandits) :
           /\ secondary_parameter_hat_rational(bandits[i])
           /\ bandits[i].secondary_parameter # 0
           /\ bandits[i].parameter # 0)
    => LET sres == [i \in 1..Len(bandits) |-> AbsSecondaryResidual(bandits[i])]
           spar == true_secondary_parameters(bandits)
       IN  /\ FloatEq(secondary_mae, Metrics_mae(sres))
           /\ FloatEq(secondary_mape, Metrics_mape(sres, spar))

\* C27: on a Bernoulli collection the total reward equals the sum of the
\* values in the pull history and lies between 0 and the number of pulls;
\* once a full_simulation called below its budget N has ended, the number
\* of pulls is N and the total reward at most N.
C27_TotalRewardMatchesHistory ==
    /\ total_reward = RewardSum(results, Len(results))
    /\ 0 <= total_reward
    /\ total_reward <= simulation_num
    /\ (call.op = "full_simulation" /\ pc = "idle"
          /\ call.c0 < strategy.num_simulations)
       => /\ simulation_num = strategy.num_simulations
          /\ total_reward <= strategy.num_simulations

\* C28: once a full_simulation of a Greedy strategy with 0 < epsilon < 1 and
\* a budget of at least the number of arms has ended on a fresh Bernoulli
\* collection, mae is a finite value in [0, 1] and mape is a value >= 0.
C28_GreedyErrorsBounded ==
    (call.op = "full_simulation" /\ pc = "idle" /\ call.kind = "greedy"
        /\ Fresh /\ call.outcome # "Exception"
        /\ 0 < strategy.epsilon /\ strategy.epsilon < EpsDen
        /\ Len(bandits) <= strategy.num_simulations)
    => /\ Metrics_mae_outcome(bandits) = "returned"
       /\ ~mae.inf
       /\ RealLe(Quot(0, 1), mae) /\ RealLe(mae, Quot(1, 1))
       /\ Metrics_mape_outcome(bandits, true_parameters(bandits)) = "returned"
       /\ mape \notin {NaN, NegInf}
       /\ RealLe(Quot(0, 1), mape)

\* C29: a Decreasing strategy constructed with a valid epsilon and decay
\* rate exists and steps; each step compares its draw u with
\* exp(epsilon - decay_rate * pulls so far), which shrinks from step to
\* step: the step reads random_bandit when u is 0 or the exponent is >= 0,
\* and pulls optimal_bandit when u is 1 and the exponent is negative.
C29_DecreasingRule ==
    /\ (call.op = "construct" /\ call.kind = "decreasing"
          /\ 0 <= call.arg /\ call.arg <= EpsDen
          /\ 0 < decay_rate_parameter(call.decay)
          /\ decay_rate_parameter(call.decay) < DecayDen)
       => strategy.kind = "decreasing"
    /\ (strategy.kind = "decreasing" /\ last.sel # "none")
       => /\ strategy.decay_rate > 0
          /\ epsilon_curr_exponent(simulation_num)
                < epsilon_curr_exponent(simulation_num - 1)
          /\ (last.u = 0 \/ epsilon_curr_exponent(simulation_num - 1) >= 0)
                => last.sel = "random"
          /\ (last.u = EpsDen /\ epsilon_curr_exponent(simulation_num - 1) < 0)
                => last.sel = "optimal"

\* C30: once the collection is built, no step changes the number of arms,
\* their order (each position keeps its arm: the observations it held stay
\* a prefix of the observations it holds), or any arm's parameter or
\* secondary parameter, and no step of a constructed strategy changes its
\* num_simulations or its epsilon.
C30_ParametersFrozen ==
    [][coll.cls # "none"
         => /\ Len(bandits') = Len(bandits)
            /\ \A i \in 1..Len(bandits) :
                  /\ bandits'[i].parameter = bandits[i].parameter
                  /\ Len(bandits'[i].results) >= Len(bandits[i].results)
                  /\ SubSeq(bandits'[i].results, 1, Len(bandits[i].results))
                        = bandits[i].results
                  /\ HasSecondary(bandits'[i]) = HasSecondary(bandits[i])
                  /\ HasSecondary(bandits[i])
                        => bandits'[i].secondary_parameter
                             = bandits[i].secondary_parameter
            /\ strategy.kind # "none"
                  => /\ strategy'.num_simulations = strategy.num_simulations
                     /\ strategy'.epsilon = strategy.epsilon]_vars

\* a First run to completion over two arms that now hold different
\* observations, each arm still carrying the parameter it was built with
C30_Witness ==
    /\ call.op = "full_simulation" /\ call.outcome = "returned"
    /\ strategy.kind = "first" /\ strategy.num_simulations = MaxN
    /\ simulation_num = MaxN
    /\ Len(bandits) = 2
    /\ bandits[1].parameter = 1 /\ bandits[2].parameter = 1
    /\ bandits[1].results # bandits[2].results

\* arm i gained exactly one observation in the step and every other arm
\* kept its observations
OnlyArmGrew(i) ==
    /\ Len(bandits'[i].results) = Len(bandits[i].results) + 1
    /\ SubSeq(bandits'[i].results, 1, Len(bandits[i].results)) = bandits[i].results
    /\ \A j \in 1..Len(bandits) \ {i} : bandits'[j].results = bandits[j].results

\* C31: every simulate_one, called directly or from the loop of a run, and
\* every direct generate of an arm makes exactly one arm's observations
\* grow by one and leaves the observations of every other arm unchanged;
\* no step changes the arms' observations in any other way.
C31_OneArmPerStep ==
    [][(SimulateOne \/ LoopStep \/ Generate \/ bandits' # bandits)
          /\ coll.cls # "none"
          => /\ Len(bandits') = Len(bandits)
             /\ \E i \in 1..Len(bandits) : OnlyArmGrew(i)]_vars

\* a first simulate_one over two or more arms has pulled the second arm and
\* left the first unpulled
C31_Witness ==
    /\ call.op = "simulate_one" /\ call.c0 = 0
    /\ Len(bandits) >= 2
    /\ Len(bandits[2].results) = 1
    /\ Unpulled(1)

\* C32: the pull counter is the collection's: a full_simulation called
\* when the collection holds p pulls, whoever made them, executes exactly
\* num_simulations - p pulls and returns when p < num_simulations, and
\* raises without pulling when p >= num_simulations.
C32_CounterFromCollection ==
    (call.op = "full_simulation" /\ pc = "idle")
    => IF call.c0 < strategy.num_simulations
       THEN /\ call.outcome = "returned"
            /\ call.steps = strategy.num_simulations - call.c0
            /\ simulation_num = strategy.num_simulations
       ELSE /\ call.outcome = "Exception"
            /\ call.steps = 0
            /\ simulation_num = call.c0

\* C33: once a First strategy has taken a step in its exploitation phase
\* (it pulled optimal_bandit), the phase test stays true and every later
\* step of that strategy, in simulate_one, full_simulation or simulate
\* past the budget, pulls optimal_bandit as well.
C33_FirstPhaseMonotone ==
    [][(strategy.kind = "first" /\ call'.op # "construct"
          /\ (last.sel = "optimal" \/ exploitation_phase))
          => /\ exploitation_phase'
             /\ last'.sel \in {last.sel, "optimal"}]_vars

\* a First strategy that explored first has been run past its budget and
\* its latest step was an exploitation step
C33_Witness ==
    /\ strategy.kind = "first"
    /\ 0 < strategy.epsilon /\ strategy.epsilon < EpsDen
    /\ strategy.num_simulations > 0
    /\ simulation_num > strategy.num_simulations
    /\ call.op = "simulate" /\ call.steps > 0
    /\ last.sel = "optimal"

\* the smallest integer >= epsilon * num_simulations of the strategy
ExplorationThreshold ==
    (strategy.epsilon * strategy.num_simulations + EpsDen - 1) \div EpsDen

\* C34: a full_simulation of a First strategy on a fresh collection makes
\* exactly ceil(epsilon * N) exploration pulls, all before its
\* exploitation pulls: pull k reads random_bandit for k up to that number,
\* which the budget holds, and pulls optimal_bandit after it; with epsilon
\* 0 every pull exploits, with epsilon 1 every pull of the budget explores.
C34_FirstExplorationCount ==
    (call.op = "full_simulation" /\ call.kind = "first" /\ Fresh
        /\ call.steps > 0)
    => /\ ExplorationThreshold <= strategy.num_simulations
       /\ call.steps <= ExplorationThreshold => last.sel = "random"
       /\ call.steps > ExplorationThreshold => last.sel = "optimal"
       /\ strategy.epsilon = 0 => last.sel = "optimal"
       /\ strategy.epsilon = EpsDen => last.sel = "random"

\* the arms pulled so far are the first n, once each
PulledInOrder(n) ==
    \A i \in 1..Len(bandits) :
        Len(bandits[i].results) = IF i <= n THEN 1 ELSE 0

\* C35: a step that pulls optimal_bandit while some arm is unpulled pulls
\* the lowest-index unpulled arm; so under a First strategy with epsilon 0
\* on a fresh collection of K arms the first K pulls visit the arms in
\* index order, once each (every pull so far being a step of the
\* strategy), and an arm is pulled a second time only from pull K + 1 on.
C35_ExploitationVisitsInOrder ==
    [][/\ (last'.sel = "optimal" /\ simulation_num' = simulation_num + 1
            /\ \E i \in 1..Len(bandits) : Unpulled(i))
          => LET low == CHOOSE i \in 1..Len(bandits) :
                           /\ Unpulled(i)
                           /\ \A j \in 1..(i - 1) : ~Unpulled(j)
             IN  /\ Len(bandits'[low].results) = 1
                 /\ \A j \in 1..Len(bandits) \ {low} : bandits'[j] = bandits[j]
       /\ (strategy'.kind = "first" /\ strategy'.epsilon = 0
            /\ Len(results') = simulation_num'
            /\ simulation_num' <= Len(bandits'))
          => PulledInOrder(simulation_num)']_vars

\* pure exploitation over two arms has pulled each once, the first and
\* then the second, and has now pulled the second again
C35_Witness ==
    /\ strategy.kind = "first" /\ strategy.epsilon = 0
    /\ Len(results) = simulation_num
    /\ Len(bandits) = 2
    /\ simulation_num = 3
    /\ Len(bandits[1].results) = 1
    /\ Len(bandits[2].results) = 2

\* C36: a Decreasing strategy with epsilon >= 0 and a valid decay rate
\* exists and steps, and at every step taken while decay_rate * pulls so
\* far <= epsilon (the exponent of epsilon_curr is >= 0, so epsilon_curr is
\* >= 1) it reads random_bandit whatever the draw; a step pulls
\* optimal_bandit only when decay_rate * pulls so far > epsilon.
C36_DecreasingExploresEarly ==
    /\ (call.op = "construct" /\ call.kind = "decreasing"
          /\ call.arg >= 0
          /\ 0 < decay_rate_parameter(call.decay)
          /\ decay_rate_parameter(call.decay) < DecayDen)
       => /\ call.outcome = "returned"
          /\ strategy.kind = "decreasing"
          /\ strategy.epsilon = call.arg
    /\ (strategy.kind = "decreasing" /\ last.sel # "none")
       => /\ last.u \in 0..EpsDen
          /\ epsilon_curr_exponent(simulation_num - 1) >= 0
                => last.sel = "random"
          /\ last.sel = "optimal"
                => epsilon_curr_exponent(simulation_num - 1) < 0

\* C37: a read of optimal_bandit, random_bandit, parameter_hat, residual,
\* reward, simulation_num, an arm's length, the secondary views or the
\* Metrics values num_simulations, total_reward, mae and mape, and the
\* construction of a Metrics or strategy object, leave every arm's
\* observations and the collection's results as they were; these change
\* only in a generate of an arm or in a simulate_one, direct or in a run.
C37_ReadsChangeNothing ==
    [][/\ req'.op \in {"read", "parameter_hat", "view", "metrics", "strategy"}
          => bandits' = bandits /\ results' = results
       /\ (coll.cls # "none" /\ (bandits' # bandits \/ results' # results))
          => \/ req'.op = "generate"
             \/ call'.op \in {"simulate_one", "full_simulation", "simulate"}
                   /\ call'.steps > 0]_vars

\* the total reward 1 was read from a collection whose arms hold the
\* observations of MaxGenerate direct pulls
C37_Witness ==
    /\ req.op = "read" /\ req.name = "total_reward"
    /\ req.outcome = "returned" /\ req.value = <<1>>
    /\ simulation_num = MaxGenerate
    /\ Len(bandits) >= 2

TypeOK ==
    /\ Len(bandits) \in 1..MaxArms
    /\ pc \in {"idle", "full_simulation", "simulate"}
    /\ todo \in 0..MaxPulls
    /\ simulation_num <= MaxPulls
====
